---- MODULE Spec2Model ----
(***************************************************************************)
(* Model of the Gronsky's Alexa skill handler (lambda/lambda_function.py). *)
(*                                                                         *)
(* One AWS Lambda process handles one event at a time.  The state is the   *)
(* position of the handler (pc), the event being handled, the locals of    *)
(* lambda_handler / on_intent / pancake_of_the_month, and the environment  *)
(* the handler reads: the document published at http://www.gronskys.com/   *)
(* and the wall clock.                                                     *)
(*                                                                         *)
(* Python strings are sequences of one-character strings, so that upper(), *)
(* capitalize(), strip() and the `in` substring test are computed.         *)
(* The document is the sequence, in document order, of the elements that   *)
(* BeautifulSoup's find_all / find visit, each with its tag, its class     *)
(* attribute (as the list of tokens bs4 keeps) and its .text.              *)
(***************************************************************************)
EXTENDS Integers, Sequences, FiniteSets, TLC

\* ---------------------------------------------------------------- bounds
\* Longest document, counted in elements.
MaxDoc == 4

\* ------------------------------------------------------- Python strings
LowerLetters ==
    <<"a", "b", "c", "d", "e", "f", "g", "h", "i", "j", "k", "l", "m", "n", "o", "p",
    "q", "r", "s", "t", "u", "v", "w", "x", "y", "z">>

UpperLetters ==
    <<"A", "B", "C", "D", "E", "F", "G", "H", "I", "J", "K", "L", "M", "N", "O", "P",
    "Q", "R", "S", "T", "U", "V", "W", "X", "Y", "Z">>

\* Characters str.strip() removes when called without arguments.
Whitespace == {" ", "\n", "\t"}

\* str.upper() of one character.
UpperChar(c) ==
    IF \E i \in 1..Len(LowerLetters) : LowerLetters[i] = c
    THEN UpperLetters[CHOOSE i \in 1..Len(LowerLetters) : LowerLetters[i] = c]
    ELSE c

\* str.lower() of one character.
LowerChar(c) ==
    IF \E i \in 1..Len(UpperLetters) : UpperLetters[i] = c
    THEN LowerLetters[CHOOSE i \in 1..Len(UpperLetters) : UpperLetters[i] = c]
    ELSE c

\* str.upper()
Upper(s) == [i \in 1..Len(s) |-> UpperChar(s[i])]

\* str.capitalize(): first character upper-cased, the rest lower-cased.
Capitalize(s) ==
    [i \in 1..Len(s) |-> IF i = 1 THEN UpperChar(s[i]) ELSE LowerChar(s[i])]

\* Python's `a in b` on strings: a is a contiguous substring of b.
IsIn(a, b) ==
    \E i \in 0..(Len(b) - Len(a)) : SubSeq(b, i + 1, i + Len(a)) = a

\* str.strip(): drop leading and trailing whitespace, keep the rest.
Strip(s) ==
    LET keep == {i \in 1..Len(s) : s[i] \notin Whitespace}
    IN  IF keep = {} THEN << >>
        ELSE LET lo == CHOOSE i \in keep : \A j \in keep : i <= j
                 hi == CHOOSE i \in keep : \A j \in keep : j <= i
             IN  SubSeq(s, lo, hi)

\* ------------------------------------------------------------ responses
EmptyDict == << >>

\* Python's None.
NoneVal == [type |-> "NoneType"]

build_speechlet_response(output, should_end_session) ==
    [outputSpeech |-> [type |-> "PlainText", text |-> output],
     shouldEndSession |-> should_end_session]

build_response(session_attributes, speechlet_response) ==
    [version |-> "1.0",
     sessionAttributes |-> session_attributes,
     response |-> speechlet_response]

WelcomeSpeech ==
    <<"W", "e", "l", "c", "o", "m", "e", " ", "t", "o", " ", "t", "h", "e", " ", "G",
    "r", "o", "n", "s", "k", "y", "'", "s", " ", "A", "l", "e", "x", "a", " ", "s",
    "k", "i", "l", "l", "!", " ", "T", "o", " ", "h", "e", "a", "r", " ", "s", "o",
    "m", "e", " ", "i", "n", "f", "o", "r", "m", "a", "t", "i", "o", "n", " ", "a",
    "b", "o", "u", "t", " ", "G", "r", "o", "n", "s", "k", "y", "'", "s", ",", " ",
    "s", "a", "y", " ", "'", "T", "e", "l", "l", " ", "m", "e", " ", "a", "b", "o",
    "u", "t", " ", "G", "r", "o", "n", "s", "k", "y", "'", "s", ".", "'", " ", "T",
    "o", " ", "h", "e", "a", "r", " ", "G", "r", "o", "n", "s", "k", "y", "'", "s",
    " ", "p", "a", "n", "c", "a", "k", "e", " ", "o", "f", " ", "t", "h", "e", " ",
    "m", "o", "n", "t", "h", ",", " ", "s", "a", "y", " ", "'", "P", "a", "n", "c",
    "a", "k", "e", " ", "o", "f", " ", "t", "h", "e", " ", "M", "o", "n", "t", "h",
    "'", ".">>

get_welcome_response ==
    build_response(EmptyDict, build_speechlet_response(WelcomeSpeech, FALSE))

HelpSpeech ==
    <<"H", "e", "l", "l", "o", "!", " ", "T", "h", "i", "s", " ", "s", "k", "i", "l",
    "l", " ", "w", "i", "l", "l", " ", "t", "e", "l", "l", " ", "y", "o", "u", " ",
    "i", "n", "f", "o", "r", "m", "a", "t", "i", "o", "n", " ", "a", "b", "o", "u",
    "t", " ", "G", "r", "o", "n", "s", "k", "y", "'", "s", ",", " ", "a", " ", "r",
    "e", "s", "t", "a", "u", "r", "a", "n", "t", " ", "l", "o", "c", "a", "t", "e",
    "d", " ", "i", "n", " ", "H", "i", "g", "h", " ", "B", "r", "i", "d", "g", "e",
    ",", " ", "N", "J", ".", " ", "T", "o", " ", "h", "e", "a", "r", " ", "s", "o",
    "m", "e", " ", "i", "n", "f", "o", "r", "m", "a", "t", "i", "o", "n", " ", "a",
    "b", "o", "u", "t", " ", "G", "r", "o", "n", "s", "k", "y", "'", "s", ",", " ",
    "s", "a", "y", " ", "'", "T", "e", "l", "l", " ", "m", "e", " ", "a", "b", "o",
    "u", "t", " ", "G", "r", "o", "n", "s", "k", "y", "'", "s", ".", "'", " ", "T",
    "o", " ", "h", "e", "a", "r", " ", "G", "r", "o", "n", "s", "k", "y", "'", "s",
    " ", "p", "a", "n", "c", "a", "k", "e", " ", "o", "f", " ", "t", "h", "e", " ",
    "m", "o", "n", "t", "h", ",", " ", "s", "a", "y", " ", "'", "P", "a", "n", "c",
    "a", "k", "e", " ", "o", "f", " ", "t", "h", "e", " ", "M", "o", "n", "t", "h",
    "'", ".">>

get_help_response ==
    build_response(EmptyDict, build_speechlet_response(HelpSpeech, FALSE))

GoodbyeSpeech ==
    <<"T", "h", "a", "n", "k", "s", " ", "f", "o", "r", " ", "u", "s", "i", "n", "g",
    " ", "t", "h", "e", " ", "G", "r", "o", "n", "s", "k", "y", "'", "s", " ", "A",
    "l", "e", "x", "a", " ", "s", "k", "i", "l", "l", "!", " ", "H", "o", "p", "e",
    " ", "y", "o", "u", " ", "v", "i", "s", "i", "t", " ", "u", "s", " ", "s", "o",
    "o", "n", "!", " ", "G", "o", "o", "d", "b", "y", "e", "!">>

\* Variant: the goodbye response keeps the session open.
SessionEndShouldEnd_open == FALSE

\* handle_session_end_request: should_end_session = True
SessionEndShouldEnd == TRUE

handle_session_end_request ==
    build_response(EmptyDict,
                   build_speechlet_response(GoodbyeSpeech, SessionEndShouldEnd))

\* The source spells the second "Gronsky's" of this text with U+2019; the
\* module keeps to ASCII and writes an apostrophe.
AboutSpeech ==
    <<"G", "r", "o", "n", "s", "k", "y", "'", "s", " ", "M", "i", "l", "k", " ", "H",
    "o", "u", "s", "e", " ", "i", "s", " ", "a", " ", "f", "a", "m", "i", "l", "y",
    "-", "o", "w", "n", "e", "d", " ", "i", "c", "e", " ", "c", "r", "e", "a", "m",
    " ", "s", "t", "o", "r", "e", " ", "a", "n", "d", " ", "r", "e", "s", "t", "a",
    "u", "r", "a", "n", "t", " ", "l", "o", "c", "a", "t", "e", "d", " ", "a", "t",
    " ", "1", "2", "5", " ", "W", "e", "s", "t", " ", "M", "a", "i", "n", " ", "S",
    "t", "r", "e", "e", "t", " ", "i", "n", " ", "H", "i", "g", "h", " ", "B", "r",
    "i", "d", "g", "e", ",", " ", "N", "e", "w", " ", "J", "e", "r", "s", "e", "y",
    ".", " ", "I", "t", " ", "w", "a", "s", " ", "f", "o", "u", "n", "d", "e", "d",
    " ", "i", "n", " ", "1", "9", "7", "8", " ", "b", "y", " ", "J", "a", "c", "k",
    "i", "e", " ", "a", "n", "d", " ", "S", "t", "e", "v", "e", " ", "G", "r", "o",
    "n", "s", "k", "y", ".", " ", "O", "r", "i", "g", "i", "n", "a", "l", "l", "y",
    " ", "a", " ", "s", "m", "a", "l", "l", " ", "c", "o", "n", "v", "e", "n", "i",
    "e", "n", "c", "e", " ", "a", "n", "d", " ", "i", "c", "e", " ", "c", "r", "e",
    "a", "m", " ", "s", "t", "o", "r", "e", ",", " ", "G", "r", "o", "n", "s", "k",
    "y", "'", "s", " ", "a", "d", "d", "e", "d", " ", "a", " ", "r", "e", "s", "t",
    "a", "u", "r", "a", "n", "t", " ", "i", "n", " ", "1", "9", "8", "8", " ", "t",
    "o", " ", "s", "e", "r", "v", "e", " ", "b", "r", "e", "a", "k", "f", "a", "s",
    "t", " ", "a", "n", "d", " ", "l", "u", "n", "c", "h", ".", " ", "T", "o", " ",
    "h", "e", "a", "r", " ", "G", "r", "o", "n", "s", "k", "y", "'", "s", " ", "p",
    "a", "n", "c", "a", "k", "e", " ", "o", "f", " ", "t", "h", "e", " ", "m", "o",
    "n", "t", "h", ",", " ", "s", "a", "y", " ", "'", "P", "a", "n", "c", "a", "k",
    "e", " ", "o", "f", " ", "t", "h", "e", " ", "M", "o", "n", "t", "h", "'", ".",
    " ", "O", "t", "h", "e", "r", "w", "i", "s", "e", ",", " ", "s", "a", "y", " ",
    "'", "S", "t", "o", "p", "'", " ", "t", "o", " ", "q", "u", "i", "t", ".">>

about_gronskys ==
    build_response(EmptyDict, build_speechlet_response(AboutSpeech, FALSE))

\* ----------------------------------------------------- the HTML document
HeadingText ==
    { <<"m", "a", "r", "c", "h", " ", "p", "a", "n", "c", "a", "k", "e">>,
      <<"M", "A", "R", "C", "H", " ", "M", "A", "D", "N", "E", "S", "S">> }

SubheadingText ==
    { <<" ", " ", "B", "l", "u", "e", " ", "C", "o", "r", "n", " ", "\n">>,
      <<"A", "p", "p", "l", "e">> }

\* class attribute values, as the token lists bs4 keeps.  The heading class
\* of the site ends in a blank, which bs4's whitespace split keeps as a
\* trailing empty token.
HeadingClass == <<"av-special-heading-tag", "">>
SubheadingClass == <<"av-subheading", "av-subheading_below">>
OtherClass == <<"entry-title">>

Element ==
    [tag : {"h2"}, class : {HeadingClass}, text : HeadingText]
    \cup [tag : {"div"}, class : {SubheadingClass}, text : SubheadingText]
    \cup [tag : {"h2"}, class : {OtherClass}, text : {<<"M", "A", "R", "C", "H", " ", "M", "A", "D", "N", "E", "S", "S">>}]

Document == UNION {[1..n -> Element] : n \in 0..MaxDoc}

\* soup.find_all("h2", {"class": "av-special-heading-tag "}): the query holds
\* whitespace, so it matches the literal attribute value only.
IsHeading(e) == e.tag = "h2" /\ e.class = HeadingClass

\* soup.find("div", {"class": "av-subheading"}): a query without whitespace
\* matches any token of the class attribute.
IsSubheading(e) ==
    e.tag = "div" /\ \E i \in 1..Len(e.class) : e.class[i] = "av-subheading"

\* find_all: the matching elements in document order.
find_all_headings(doc) == SelectSeq(doc, IsHeading)

\* find: the first matching element in document order, or None.
find_subheading(doc) ==
    LET subs == SelectSeq(doc, IsSubheading)
    IN  IF subs = << >> THEN NoneVal ELSE subs[1]

\* ------------------------------------------------------------ the clock
\* datetime.now().strftime('%B') for each month number.
MonthName ==
    << <<"J", "a", "n", "u", "a", "r", "y">>, <<"F", "e", "b", "r", "u", "a", "r", "y">>, <<"M", "a", "r", "c", "h">>, <<"A", "p", "r", "i", "l">>,
       <<"M", "a", "y">>, <<"J", "u", "n", "e">>, <<"J", "u", "l", "y">>, <<"A", "u", "g", "u", "s", "t">>,
       <<"S", "e", "p", "t", "e", "m", "b", "e", "r">>, <<"O", "c", "t", "o", "b", "e", "r">>, <<"N", "o", "v", "e", "m", "b", "e", "r">>, <<"D", "e", "c", "e", "m", "b", "e", "r">> >>

\* The months the clock takes in the model.
ModelMonths == {3, 4}

\* --------------------------------------------------------------- events
RecognizedIntents ==
    {"AMAZON.HelpIntent", "AMAZON.CancelIntent", "AMAZON.StopIntent",
     "AboutGronskys", "PancakeOfTheMonth"}

IntentNames == RecognizedIntents \cup {"AMAZON.FallbackIntent"}

NoIntent == "-"

Events ==
    [type : {"LaunchRequest", "SessionEndedRequest", "System.ExceptionEncountered"},
     new : BOOLEAN, intent : {NoIntent}]
    \cup [type : {"IntentRequest"}, new : BOOLEAN, intent : IntentNames]

NoEvent == [type |-> "-", new |-> FALSE, intent |-> NoIntent]

\* ---------------------------------------------------------------- state
VARIABLES
    pc,             \* position of the handler
    event,          \* the event lambda_handler was invoked with
    site,           \* the document http://www.gronskys.com/ serves
    now,            \* month of the wall clock
    r,              \* pancake_of_the_month: the HTTP response, or None
    soup,           \* pancake_of_the_month: the parsed document
    current_month,  \* pancake_of_the_month: the period token
    correct_month,  \* pancake_of_the_month: the freshness flag
    response,       \* on_intent: the response of the chosen builder
    result,         \* what lambda_handler returned
    error,          \* the exception that left lambda_handler, or ""
    fetches,        \* URLs this invocation issued a GET to, in order
    tracks,         \* vi.track calls made by this invocation
    prev            \* last finished extraction: document, token, outcome

vars == <<pc, event, site, now, r, soup, current_month, correct_month,
          response, result, error, fetches, tracks, prev>>

locals == <<r, soup, current_month, correct_month, response, result, error,
            fetches, tracks>>

env == <<site, now>>

\* What an HTTP error status carries instead of the site's document.
ErrorPage == << >>

Init ==
    /\ pc = "idle"
    /\ event = NoEvent
    /\ site \in Document
    /\ now \in ModelMonths
    /\ r = NoneVal
    /\ soup = << >>
    /\ current_month = << >>
    /\ correct_month = FALSE
    /\ response = NoneVal
    /\ result = NoneVal
    /\ error = ""
    /\ fetches = << >>
    /\ tracks = 0
    /\ prev = NoneVal

\* ---------------------------------------------------------- environment
\* The site's maintainer edits the published document: an element is
\* added at the end or the first element is removed.
SiteUpdate ==
    /\ pc = "idle"
    /\ \/ /\ Len(site) < MaxDoc
          /\ \E e \in Element : site' = Append(site, e)
       \/ /\ site # << >>
          /\ site' = Tail(site)
    /\ prev' = NoneVal
    /\ UNCHANGED <<pc, event, now, locals>>

\* The calendar month changes.
Tick ==
    /\ pc = "idle"
    /\ \E m \in ModelMonths : m # now /\ now' = m
    /\ UNCHANGED <<pc, event, site, locals, prev>>

\* The platform invokes lambda_handler(event, context).
Invoke ==
    /\ pc = "idle"
    /\ \E e \in Events : event' = e
    /\ pc' = "lambda_handler"
    /\ UNCHANGED <<env, locals, prev>>

\* -------------------------------------------------------- lambda_handler
\* lambda_handler up to the request-type dispatch.
LambdaHandler ==
    /\ pc = "lambda_handler"
    /\ pc' = IF event.new THEN "on_session_started" ELSE "dispatch"
    /\ UNCHANGED <<event, env, locals, prev>>

\* on_session_started: `vi.initialize(appToken, session)` names a global
\* that is never bound (the module binds vi_appToken), so evaluating the
\* argument raises NameError before initialize is entered.
OnSessionStarted ==
    /\ pc = "on_session_started"
    /\ error' = "NameError"
    /\ pc' = "raised"
    /\ UNCHANGED <<event, env, r, soup, current_month, correct_month,
                   response, result, fetches, tracks, prev>>

\* The if/elif chain of lambda_handler on event['request']['type'].
Dispatch ==
    /\ pc = "dispatch"
    /\ IF event.type = "LaunchRequest"
       THEN /\ result' = get_welcome_response
            /\ pc' = "returned"
       ELSE IF event.type = "IntentRequest"
       THEN /\ pc' = "on_intent"
            /\ UNCHANGED result
       ELSE \* on_session_ended returns nothing; any other type falls
            \* off the end of the chain
            /\ result' = NoneVal
            /\ pc' = "returned"
    /\ UNCHANGED <<event, env, r, soup, current_month, correct_month,
                   response, error, fetches, tracks, prev>>

\* ------------------------------------------------------------- on_intent
\* Variant: an unknown intent name is answered with the help text.
IntentBranch_lenient(intent_name) ==
    IF intent_name \in {"AMAZON.CancelIntent", "AMAZON.StopIntent"} THEN "end"
    ELSE IF intent_name = "AboutGronskys" THEN "about"
    ELSE IF intent_name = "PancakeOfTheMonth" THEN "pancake"
    ELSE "help"

\* The branch of on_intent's if/elif chain an intent name takes.
IntentBranch(intent_name) ==
    IF intent_name = "AMAZON.HelpIntent" THEN "help"
    ELSE IF intent_name = "AMAZON.CancelIntent"
            \/ intent_name = "AMAZON.StopIntent" THEN "end"
    ELSE IF intent_name = "AboutGronskys" THEN "about"
    ELSE IF intent_name = "PancakeOfTheMonth" THEN "pancake"
    ELSE "invalid"

OnIntent ==
    /\ pc = "on_intent"
    /\ LET b == IntentBranch(event.intent)
       IN  CASE b = "help" ->
                  /\ response' = get_help_response
                  /\ pc' = "track"
                  /\ UNCHANGED error
             [] b = "end" ->
                  /\ response' = handle_session_end_request
                  /\ pc' = "track"
                  /\ UNCHANGED error
             [] b = "about" ->
                  /\ response' = about_gronskys
                  /\ pc' = "track"
                  /\ UNCHANGED error
             [] b = "pancake" ->
                  /\ pc' = "fetch"
                  /\ UNCHANGED <<response, error>>
             [] OTHER ->
                  /\ error' = "ValueError"
                  /\ pc' = "raised"
                  /\ UNCHANGED response
    /\ UNCHANGED <<event, env, r, soup, current_month, correct_month,
                   result, fetches, tracks, prev>>

\* vi.track(intent_name, intent_request, response); return response.
Track ==
    /\ pc = "track"
    /\ tracks' = tracks + 1
    /\ result' = response
    /\ pc' = "returned"
    /\ UNCHANGED <<event, env, r, soup, current_month, correct_month,
                   response, error, fetches, prev>>

\* -------------------------------------------------- pancake_of_the_month
SourceUrl == "http://www.gronskys.com/"

\* Variant: a transport failure is retried.
Fetch_retry ==
    /\ pc = "fetch"
    /\ Len(fetches) < 2
    /\ fetches' = Append(fetches, SourceUrl)
    /\ \/ /\ pc' = IF Len(fetches) = 0 THEN "fetch" ELSE "raised"
          /\ error' = IF Len(fetches) = 0 THEN error ELSE "ConnectionError"
          /\ UNCHANGED r
       \/ /\ \E resp \in {[status |-> 200, content |-> site],
                          [status |-> 404, content |-> ErrorPage]} : r' = resp
          /\ pc' = "parse"
          /\ UNCHANGED error
    /\ UNCHANGED <<event, env, soup, current_month, correct_month,
                   response, result, tracks, prev>>

\* r = requests.get('http://www.gronskys.com/'): a transport failure
\* raises; any HTTP status, 2xx or not, returns a response object.
Fetch ==
    /\ pc = "fetch"
    /\ fetches' = Append(fetches, SourceUrl)
    /\ \/ /\ error' = "ConnectionError"
          /\ pc' = "raised"
          /\ UNCHANGED r
       \/ /\ \E resp \in {[status |-> 200, content |-> site],
                          [status |-> 404, content |-> ErrorPage]} : r' = resp
          /\ pc' = "parse"
          /\ UNCHANGED error
    /\ UNCHANGED <<event, env, soup, current_month, correct_month,
                   response, result, tracks, prev>>

\* soup = BeautifulSoup(r.content, 'html.parser');
\* current_month = datetime.now().strftime('%B').upper().
Parse ==
    /\ pc = "parse"
    /\ soup' = r.content
    /\ current_month' = Upper(MonthName[now])
    /\ pc' = "scan"
    /\ UNCHANGED <<event, env, r, correct_month, response, result, error,
                   fetches, tracks, prev>>

\* Variant: the flag starts set.
InitialCorrectMonth_set == TRUE

\* Variant: the flag is process state that an earlier extraction leaves set.
InitialCorrectMonth_leak == prev # NoneVal

\* correct_month = False
InitialCorrectMonth == FALSE

\* Variant: the heading text is compared without upper().
HeadingMatches_cased(month, heading) == IsIn(month, heading.text)

\* current_month in heading.text.upper()
HeadingMatches(month, heading) == IsIn(month, Upper(heading.text))

\* The for loop over the heading candidates: it sets the flag at every
\* match and never leaves early.
RECURSIVE ScanHeadings(_, _, _)
ScanHeadings(headings, month, flag) ==
    IF headings = << >> THEN flag
    ELSE ScanHeadings(Tail(headings), month,
                      IF HeadingMatches(month, Head(headings)) THEN TRUE
                      ELSE flag)

Scan ==
    /\ pc = "scan"
    /\ correct_month' = ScanHeadings(find_all_headings(soup), current_month,
                                     InitialCorrectMonth)
    /\ pc' = "speech"
    /\ UNCHANGED <<event, env, r, soup, current_month, response, result,
                   error, fetches, tracks, prev>>

\* Variant: a missing subheading yields the empty text.
CurrentPancake_empty(doc) ==
    LET el == find_subheading(doc)
    IN  [raised |-> FALSE,
         value |-> IF el = NoneVal THEN << >> ELSE Strip(el.text)]

\* soup.find("div", {"class": "av-subheading"}).text.strip(): attribute
\* access on None raises AttributeError.
CurrentPancake(doc) ==
    LET el == find_subheading(doc)
    IN  IF el = NoneVal THEN [raised |-> TRUE, value |-> << >>]
        ELSE [raised |-> FALSE, value |-> Strip(el.text)]

SuccessSpeech(month, pancake) ==
    <<"T", "h", "e", " ", "p", "a", "n", "c", "a", "k", "e", " ", "o", "f", " ", "t",
    "h", "e", " ", "m", "o", "n", "t", "h", " ", "f", "o", "r", " ">> \o Capitalize(month)
    \o <<" ", "i", "s", " ">> \o pancake \o <<".", " ">>

StaleSpeech ==
    <<"S", "o", "r", "r", "y", ",", " ", "b", "u", "t", " ", "t", "h", "e", " ", "p",
    "a", "n", "c", "a", "k", "e", " ", "o", "f", " ", "t", "h", "e", " ", "m", "o",
    "n", "t", "h", " ", "i", "s", "n", "'", "t", " ", "a", "v", "a", "i", "l", "a",
    "b", "l", "e", " ", "y", "e", "t", "!", " ", "T", "r", "y", " ", "a", "g", "a",
    "i", "n", " ", "a", "t", " ", "a", " ", "l", "a", "t", "e", "r", " ", "t", "i",
    "m", "e", ".", " ">>

PancakeSuffix ==
    <<"T", "o", " ", "h", "e", "a", "r", " ", "m", "o", "r", "e", " ", "i", "n", "f",
    "o", "r", "m", "a", "t", "i", "o", "n", " ", "a", "b", "o", "u", "t", " ", "G",
    "r", "o", "n", "s", "k", "y", "'", "s", ",", " ", "s", "a", "y", " ", "'", "T",
    "e", "l", "l", " ", "m", "e", " ", "a", "b", "o", "u", "t", " ", "G", "r", "o",
    "n", "s", "k", "y", "'", "s", "'", ".", " ", "O", "t", "h", "e", "r", "w", "i",
    "s", "e", ",", " ", "s", "a", "y", " ", "'", "S", "t", "o", "p", "'", " ", "t",
    "o", " ", "q", "u", "i", "t", ".">>

\* The if correct_month / else of pancake_of_the_month and its return.
Speech ==
    /\ pc = "speech"
    /\ IF correct_month
       THEN LET p == CurrentPancake(soup)
            IN  IF p.raised
                THEN /\ error' = "AttributeError"
                     /\ pc' = "raised"
                     /\ UNCHANGED response
                ELSE /\ response' = build_response(EmptyDict,
                            build_speechlet_response(
                                SuccessSpeech(current_month, p.value)
                                    \o PancakeSuffix, FALSE))
                     /\ pc' = "track"
                     /\ UNCHANGED error
       ELSE /\ response' = build_response(EmptyDict,
                    build_speechlet_response(StaleSpeech \o PancakeSuffix,
                                             FALSE))
            /\ pc' = "track"
            /\ UNCHANGED error
    /\ UNCHANGED <<event, env, r, soup, current_month, correct_month,
                   result, fetches, tracks, prev>>

\* ------------------------------------------------- end of an invocation
\* What pancake_of_the_month handed to its caller.
Outcome ==
    IF pc = "raised" THEN [raised |-> error, returned |-> NoneVal]
    ELSE [raised |-> "", returned |-> response]

\* lambda_handler has returned or raised; the process waits for the next
\* event.  Nothing of the invocation is kept by the program; prev is the
\* record of the extraction this invocation performed, if it fetched a
\* document.
Finish ==
    /\ pc \in {"returned", "raised"}
    /\ pc' = "idle"
    /\ event' = NoEvent
    /\ r' = NoneVal
    /\ soup' = << >>
    /\ current_month' = << >>
    /\ correct_month' = FALSE
    /\ response' = NoneVal
    /\ result' = NoneVal
    /\ error' = ""
    /\ fetches' = << >>
    /\ tracks' = 0
    /\ prev' = IF r # NoneVal
               THEN [doc |-> soup, tok |-> current_month, out |-> Outcome]
               ELSE prev
    /\ UNCHANGED env

Next ==
    \/ SiteUpdate
    \/ Tick
    \/ Invoke
    \/ LambdaHandler
    \/ OnSessionStarted
    \/ Dispatch
    \/ OnIntent
    \/ Track
    \/ Fetch
    \/ Parse
    \/ Scan
    \/ Speech
    \/ Finish

Spec == Init /\ [][Next]_vars

TypeOK ==
    /\ pc \in {"idle", "lambda_handler", "on_session_started", "dispatch",
               "on_intent", "track", "fetch", "parse", "scan", "speech",
               "returned", "raised"}
    /\ event \in Events \cup {NoEvent}
    /\ site \in Document
    /\ now \in ModelMonths
    /\ correct_month \in BOOLEAN
    /\ fetches \in {<< >>, <<SourceUrl>>}
    /\ tracks \in 0..1

\* =========================================================== properties
\* The label contains the token, compared letter by letter without regard
\* to case.
LabelContains(label, token) ==
    \E off \in 0..(Len(label) - Len(token)) :
        \A k \in 1..Len(token) : LowerChar(label[off + k]) = LowerChar(token[k])

\* Positions of the heading candidates of a document.
Candidates(doc) ==
    {i \in 1..Len(doc) : doc[i].tag = "h2" /\ doc[i].class = HeadingClass}

\* Positions of the heading candidates whose label contains the token.
Matching(doc, token) ==
    {i \in Candidates(doc) : LabelContains(doc[i].text, token)}

\* Positions of the elements carrying the subheading marker.
Subheadings(doc) ==
    {i \in 1..Len(doc) :
        doc[i].tag = "div" /\ "av-subheading" \in {doc[i].class[k] : k \in 1..Len(doc[i].class)}}

\* Position of the subheading that follows the heading at position i.
SubheadingAfter(doc, i) ==
    CHOOSE j \in Subheadings(doc) :
        j > i /\ \A k \in Subheadings(doc) : k > i => j <= k

\* pancake_of_the_month fetched a document and has returned or raised.
Extracted == r # NoneVal /\ pc \in {"track", "returned", "raised"}

\* pancake_of_the_month returned a response (to on_intent).
ExtractorReturned == Extracted /\ pc # "raised"

Utterance(resp) == resp.response.outputSpeech.text

\* The outcome is Stale: the fixed apology sentence, then the suffix.
IsStale(resp) == Utterance(resp) = StaleSpeech \o PancakeSuffix

\* The outcome is Success(value, period), rendered as a sentence.
IsSuccess(resp, value, period) ==
    Utterance(resp) =
        <<"T", "h", "e", " ", "p", "a", "n", "c", "a", "k", "e", " ", "o", "f", " ", "t",
    "h", "e", " ", "m", "o", "n", "t", "h", " ", "f", "o", "r", " ">> \o Capitalize(period) \o <<" ", "i", "s", " ">>
        \o value \o <<".", " ">> \o PancakeSuffix

IsEnvelope(x) == DOMAIN x = {"version", "sessionAttributes", "response"}

\* C1: whenever no heading candidate of the fetched document contains the
\* period token (case-insensitive substring), the extractor returns the
\* Stale apology; a response other than Stale is returned only when some
\* heading candidate contains the token.
C1_Freshness ==
    Extracted =>
        /\ Matching(soup, current_month) = {} =>
               ExtractorReturned /\ IsStale(response)
        /\ (ExtractorReturned /\ ~IsStale(response)) =>
               Matching(soup, current_month) # {}

\* C1 witness: a document with a heading candidate and a subheading, none
\* of whose headings names the current month, was answered with Stale.
C1_Witness ==
    /\ ExtractorReturned
    /\ Candidates(soup) # {}
    /\ Subheadings(soup) # {}
    /\ Matching(soup, current_month) = {}
    /\ IsStale(response)

\* C2 (as claimed): when two or more heading candidates contain the token,
\* the value returned is the text of the subheading associated with the
\* first matching heading in document order.
C2_FirstMatchSubheading ==
    (/\ ExtractorReturned
     /\ Cardinality(Matching(soup, current_month)) >= 2) =>
        LET first == CHOOSE i \in Matching(soup, current_month) :
                         \A j \in Matching(soup, current_month) : i <= j
        IN  (\E j \in Subheadings(soup) : j > first) =>
                IsSuccess(response,
                          Strip(soup[SubheadingAfter(soup, first)].text),
                          current_month)

\* C3 (as claimed): when exactly one heading candidate contains the token
\* and a subheading follows it, the outcome is Success with that
\* subheading's trimmed text, in a sentence naming the capitalized period.
C3_SingleMatchSuccess ==
    (/\ Extracted
     /\ Cardinality(Matching(soup, current_month)) = 1) =>
        LET h == CHOOSE i \in Matching(soup, current_month) : TRUE
        IN  (\E j \in Subheadings(soup) : j > h) =>
                /\ ExtractorReturned
                /\ IsSuccess(response,
                             Strip(soup[SubheadingAfter(soup, h)].text),
                             current_month)

\* C4: when some heading candidate contains the token and the document has
\* no subheading element, the extractor raises: there is no response, Stale
\* or Success, no envelope is returned and no track call is made.
C4_MissingSubheadingFatal ==
    (/\ Extracted
     /\ Matching(soup, current_month) # {}
     /\ Subheadings(soup) = {}) =>
        /\ pc = "raised"
        /\ error = "AttributeError"
        /\ response = NoneVal
        /\ result = NoneVal
        /\ tracks = 0

\* C4 witness: the extractor raised on a fresh document without subheading.
C4_Witness ==
    /\ Extracted
    /\ Matching(soup, current_month) # {}
    /\ Subheadings(soup) = {}
    /\ pc = "raised"
    /\ error = "AttributeError"

\* C5: the freshness flag is set exactly when some heading candidate, in
\* any letter case and with any other words around the token, contains the
\* token; and whenever one does, the outcome is not Stale.
C5_MatchPredicate ==
    /\ pc \in {"speech", "track", "returned", "raised"} /\ r # NoneVal =>
           (correct_month <=> Matching(soup, current_month) # {})
    /\ (ExtractorReturned /\ Matching(soup, current_month) # {}) =>
           ~IsStale(response)

\* C5 witness: the only heading candidates are written in lower case, one
\* contains the token, and a value was returned.
C5_Witness ==
    /\ ExtractorReturned
    /\ Matching(soup, current_month) # {}
    /\ \A i \in Candidates(soup) : soup[i].text # Upper(soup[i].text)
    /\ ~IsStale(response)

\* C6 (as claimed): for a LaunchRequest, an IntentRequest with a recognized
\* name and a SessionEndedRequest, what lambda_handler returns is an
\* envelope with empty sessionAttributes, a plain-text utterance, and
\* shouldEndSession true exactly for AMAZON.CancelIntent / AMAZON.StopIntent.
EnvelopeContract(x) ==
    /\ IsEnvelope(x)
    /\ x.sessionAttributes = EmptyDict
    /\ x.response.outputSpeech.type = "PlainText"
    /\ Len(x.response.outputSpeech.text) > 0
    /\ x.response.shouldEndSession
           <=> event.intent \in {"AMAZON.CancelIntent", "AMAZON.StopIntent"}

C6_EnvelopeForEveryEvent ==
    (/\ pc = "returned"
     /\ \/ event.type \in {"LaunchRequest", "SessionEndedRequest"}
        \/ event.type = "IntentRequest" /\ event.intent \in RecognizedIntents)
        => EnvelopeContract(result)

\* C6 (amended): for a LaunchRequest and an IntentRequest with a recognized
\* name, what lambda_handler returns is such an envelope; for a
\* SessionEndedRequest it returns None and no envelope.
C6_EnvelopeWhenReturned ==
    pc = "returned" =>
        /\ event.type = "SessionEndedRequest" => result = NoneVal
        /\ event.type \in {"LaunchRequest", "IntentRequest"} =>
               /\ EnvelopeContract(result)
               /\ event.type = "IntentRequest" =>
                      event.intent \in RecognizedIntents

\* C6 witness: the stop intent was answered with a session-ending envelope.
C6_Witness ==
    /\ pc = "returned"
    /\ event.intent = "AMAZON.StopIntent"
    /\ IsEnvelope(result)
    /\ result.response.shouldEndSession

\* C7: an IntentRequest with an unrecognized name ends in an exception:
\* nothing is returned, no response is built, no GET is issued and no
\* track call is made; the exception on_intent raises is ValueError.
C7_UnrecognizedIntentFatal ==
    (event.type = "IntentRequest" /\ event.intent \notin RecognizedIntents) =>
        /\ pc \in {"lambda_handler", "on_session_started", "dispatch",
                   "on_intent", "raised"}
        /\ response = NoneVal
        /\ result = NoneVal
        /\ fetches = << >>
        /\ tracks = 0
        /\ (pc = "raised" /\ ~event.new) => error = "ValueError"

\* C7 witness: on_intent raised ValueError for the unrecognized name.
C7_Witness ==
    /\ event.type = "IntentRequest"
    /\ event.intent \notin RecognizedIntents
    /\ pc = "raised"
    /\ error = "ValueError"

\* C8: the extractor issues exactly one GET, to the source URL, before it
\* parses or checks anything; a failed GET raises at once with nothing
\* parsed, no outcome and nothing returned; no other request issues a GET.
C8_SingleFetch ==
    /\ fetches \in {<< >>, <<SourceUrl>>}
    /\ pc = "fetch" =>
           fetches = << >> /\ soup = << >> /\ current_month = << >>
    /\ (pc \in {"parse", "scan", "speech"} \/ Extracted) =>
           fetches = <<SourceUrl>>
    /\ error = "ConnectionError" =>
           /\ pc = "raised"
           /\ fetches = <<SourceUrl>>
           /\ r = NoneVal /\ soup = << >> /\ current_month = << >>
           /\ response = NoneVal /\ result = NoneVal
    /\ event.intent # "PancakeOfTheMonth" => fetches = << >>

\* C8 witness: the single GET failed and the invocation ended in the error.
C8_Witness ==
    /\ pc = "raised"
    /\ error = "ConnectionError"
    /\ fetches = <<SourceUrl>>

\* C9: an extraction on the same document content and the same token as
\* the previous extraction has the same outcome: the same response (Stale
\* or Success with its value and period) or the same exception.
C9_Idempotent ==
    (/\ Extracted
     /\ prev # NoneVal
     /\ prev.doc = soup
     /\ prev.tok = current_month) => Outcome = prev.out

\* C9 witness: a second extraction on the same document and token repeated
\* a Success outcome.
C9_Witness ==
    /\ ExtractorReturned
    /\ prev # NoneVal
    /\ prev.doc = soup
    /\ prev.tok = current_month
    /\ ~IsStale(response)
    /\ Outcome = prev.out

\* C10 (as claimed): with session.new true, on_session_started completes
\* and the request is dispatched as it is with session.new false: the
\* invocation does not end in an error of the session start, and a
\* LaunchRequest returns the welcome response.
C10_SessionStartTransparent ==
    (event.new /\ pc \in {"returned", "raised"}) =>
        /\ error # "NameError"
        /\ event.type = "LaunchRequest" =>
               pc = "returned" /\ result = get_welcome_response

====
